---- MODULE Spec2Model ----
(***************************************************************************)
(* Converter-Pro: the server-side conversion dispatcher                    *)
(* (src/app/api/convert/route.ts) and the client-side converter component  *)
(* (src/components/file-converter.tsx).                                    *)
(*                                                                         *)
(* Strings are sequences of one-character strings, so that split, pop,     *)
(* toLowerCase and toUpperCase are computed as JavaScript computes them.   *)
(* Lengths on the page are kept in tenths of a point (lineHeight 14.4 is   *)
(* 144); scaled image sizes are binary64 numbers, rounded as the language  *)
(* rounds them.                                                            *)
(***************************************************************************)
EXTENDS Integers, Sequences, FiniteSets, TLC

VARIABLES
    \* server (route.ts POST)
    request, response, served,
    \* text reflow (route.ts convertTxtToPdf)
    txtLines, lineIdx, pageCount, yPosition, drawn, txtPc,
    \* image embed (route.ts convertImageToPdf)
    metadata, embedded,
    \* client (file-converter.tsx FileConverter)
    files, outputFormat, isConverting, progress, convertedFiles, error,
    offered, crashed, jobFiles, jobOutput, jobIdx, jobResponse, inflight,
    handled

serverVars == <<request, response, served>>
reflowVars == <<txtLines, lineIdx, pageCount, yPosition, drawn, txtPc>>
embedVars  == <<metadata, embedded>>
clientVars == <<files, outputFormat, isConverting, progress, convertedFiles,
                error, offered, crashed, jobFiles, jobOutput, jobIdx,
                jobResponse, inflight, handled>>
vars == <<serverVars, reflowVars, embedVars, clientVars>>

----------------------------------------------------------------------------
(* JavaScript values and string primitives                                 *)

Dot == <<".">>
Newline == "\n"

LowerAlpha == <<"a","b","c","d","e","f","g","h","i","j","k","l","m",
                "n","o","p","q","r","s","t","u","v","w","x","y","z">>
UpperAlpha == <<"A","B","C","D","E","F","G","H","I","J","K","L","M",
                "N","O","P","Q","R","S","T","U","V","W","X","Y","Z">>

ToLowerChar(c) ==
    IF \E i \in 1..Len(UpperAlpha) : UpperAlpha[i] = c
    THEN LowerAlpha[CHOOSE i \in 1..Len(UpperAlpha) : UpperAlpha[i] = c]
    ELSE c

ToUpperChar(c) ==
    IF \E i \in 1..Len(LowerAlpha) : LowerAlpha[i] = c
    THEN UpperAlpha[CHOOSE i \in 1..Len(LowerAlpha) : LowerAlpha[i] = c]
    ELSE c

\* String.prototype.toLowerCase / toUpperCase
ToLowerCase(s) == [i \in 1..Len(s) |-> ToLowerChar(s[i])]
ToUpperCase(s) == [i \in 1..Len(s) |-> ToUpperChar(s[i])]

\* String.prototype.split(sep) for a one-character separator: always at
\* least one piece, empty pieces kept.  Computed by halving the string (the
\* pieces of s1 \o s2 are those of s1 and of s2, with the last piece of s1
\* and the first piece of s2 joined).
JoinPieces(a, b) ==
    SubSeq(a, 1, Len(a) - 1) \o <<a[Len(a)] \o b[1]>> \o Tail(b)

RECURSIVE SplitRange(_, _, _, _)
SplitRange(s, sep, lo, hi) ==
    IF lo > hi THEN << <<>> >>
    ELSE IF lo = hi
    THEN IF s[lo] = sep THEN << <<>>, <<>> >> ELSE << <<s[lo]>> >>
    ELSE LET mid == (lo + hi) \div 2
         IN  JoinPieces(SplitRange(s, sep, lo, mid),
                        SplitRange(s, sep, mid + 1, hi))

Split(s, sep) == SplitRange(s, sep, 1, Len(s))

\* Array.prototype.pop() used as an expression: the last element
Pop(arr) == arr[Len(arr)]

\* Array.prototype.includes
Includes(arr, x) == \E i \in 1..Len(arr) : arr[i] = x

\* Array.prototype.filter(format => format !== x)
RECURSIVE FilterNot(_, _)
FilterNot(arr, x) ==
    IF arr = <<>> THEN <<>>
    ELSE IF Head(arr) = x THEN FilterNot(Tail(arr), x)
    ELSE <<Head(arr)>> \o FilterNot(Tail(arr), x)

Range(arr) == {arr[i] : i \in 1..Len(arr)}

\* the characters of s put into one string, as a template literal does
RECURSIVE Str(_)
Str(s) == IF s = <<>> THEN "" ELSE Head(s) \o Str(Tail(s))

----------------------------------------------------------------------------
(* Format identifiers                                                      *)

pdf  == <<"p","d","f">>
docx == <<"d","o","c","x">>
doc  == <<"d","o","c">>
txt  == <<"t","x","t">>
rtf  == <<"r","t","f">>
pptx == <<"p","p","t","x">>
ppt  == <<"p","p","t">>
odp  == <<"o","d","p">>
jpg  == <<"j","p","g">>
jpeg == <<"j","p","e","g">>
png  == <<"p","n","g">>
gif  == <<"g","i","f">>
bmp  == <<"b","m","p">>
webp == <<"w","e","b","p">>
svg  == <<"s","v","g">>
csv  == <<"c","s","v">>
xlsx == <<"x","l","s","x">>
xls  == <<"x","l","s">>

----------------------------------------------------------------------------
(* Server: src/app/api/convert/route.ts                                    *)

\* MIME types, written out as the template literals build them
ImageSlash     == <<"i","m","a","g","e","/">>
ApplicationPdf == <<"a","p","p","l","i","c","a","t","i","o","n","/","p","d","f">>
TextPlain      == <<"t","e","x","t","/","p","l","a","i","n">>

\* Result of a conversion function: it returns bytes (ok) having run the
\* listed steps, or throws an Error with the given message.
Returned(stepsRun) == [ok |-> TRUE, steps |-> stepsRun, message |-> ""]
Thrown(stepsRun, msg) == [ok |-> FALSE, steps |-> stepsRun, message |-> msg]

\* convertPdfToImage: the pdf buffer is never read; a blank 595x842 page is
\* created and encoded.
convertPdfToImage(buffer, outFmt) ==
    IF outFmt = jpg \/ outFmt = jpeg
    THEN Returned(<<"blank-page", "encode-jpeg">>)
    ELSE Returned(<<"blank-page", "encode-png">>)

\* convertImageToPdf: decode (metadata), embed, draw, save.  The geometry is
\* modelled by ImageLayout below.
convertImageToPdf(buffer) ==
    IF buffer.ok THEN Returned(<<"embed-image">>)
    ELSE Thrown(<<>>, "decode failure")

\* convertImageToImage: the constructor sharp(buffer) of line 169 throws on a
\* buffer of 0 bytes (buffer.empty), before the switch.  Bytes are decoded
\* lazily, so the switch default throws before anything is decoded;
\* toBuffer() of the other cases decodes.
convertImageToImage(buffer, outFmt) ==
    IF buffer.empty THEN Thrown(<<>>, "decode failure")
    ELSE IF ~Includes(<<jpg, jpeg, png, webp>>, outFmt)
    THEN Thrown(<<>>, "Unsupported output format: " \o Str(outFmt))
    ELSE IF ~buffer.ok THEN Thrown(<<>>, "decode failure")
    ELSE IF outFmt = jpg \/ outFmt = jpeg THEN Returned(<<"reencode-jpeg">>)
    ELSE IF outFmt = png THEN Returned(<<"reencode-png">>)
    ELSE Returned(<<"reencode-webp">>)

\* convertTxtToPdf as called by the dispatcher; the page loop is modelled step
\* by step by the Reflow actions below.  Decoding the bytes as utf-8 never
\* fails; drawText throws on a character the standard font cannot encode
\* (buffer.drawable is FALSE) and the catch block rethrows.
convertTxtToPdf(buffer) ==
    IF buffer.drawable THEN Returned(<<"reflow-text">>)
    ELSE Thrown(<<>>, "Text to PDF conversion failed")

\* convertDocxToPdf: mammoth extracts the text (buffer.ok), then
\* convertTxtToPdf runs on the extracted text.
convertDocxToPdf(buffer) ==
    IF ~buffer.ok THEN Thrown(<<>>, "extraction failure")
    ELSE LET r == convertTxtToPdf(buffer)
         IN  [r EXCEPT !.steps = <<"extract-text">> \o @]

convertDocxToTxt(buffer) ==
    IF buffer.ok THEN Returned(<<"extract-text">>)
    ELSE Thrown(<<>>, "extraction failure")

NoError == [kind |-> "none", from |-> <<>>, to |-> <<>>, detail |-> ""]

JsonResponse(st, err) ==
    [status |-> st, body |-> "json", steps |-> <<>>, mimeType |-> <<>>,
     filename |-> <<>>, error |-> err]

\* new NextResponse(convertedBuffer, {headers}) on success; a throw inside the
\* conversion function lands in the catch block of POST (status 500).
Finish(r, mime, fname) ==
    IF r.ok
    THEN [status |-> 200, body |-> "bytes", steps |-> r.steps,
          mimeType |-> mime, filename |-> fname, error |-> NoError]
    ELSE [JsonResponse(500, [NoError EXCEPT !.kind = "failed",
                                            !.detail = r.message])
            EXCEPT !.steps = r.steps]

\* `image/${outputFormat === "jpg" ? "jpeg" : outputFormat}`
ImageMime(outFmt) == ImageSlash \o (IF outFmt = jpg THEN jpeg ELSE outFmt)

\* an output name that keeps everything before the last "."
OutputNameFullStem(name, ext) ==
    LET parts == Split(name, ".")
    IN  (IF Len(parts) = 1 THEN name
         ELSE SubSeq(name, 1, Len(name) - Len(Pop(parts)) - 1)) \o Dot \o ext

\* `${file.name.split(".")[0]}.${outputFormat}`
OutputName(name, ext) == Split(name, ".")[1] \o Dot \o ext

\* file.name.split(".").pop()?.toLowerCase()
ServerInputFormat(name) == ToLowerCase(Pop(Split(name, ".")))

\* a dispatcher that also takes pdf -> webp
PdfTargetsWithWebp == <<jpg, jpeg, png, webp>>

PdfTargets        == <<jpg, jpeg, png>>
ImageToPdfInputs  == <<jpg, jpeg, png, gif, webp>>
ImageToImageInputs == <<jpg, jpeg, png, gif, webp, bmp>>
ImageTargets      == <<jpg, jpeg, png, webp>>

\* The if/else-if chain of POST, lines 28-67
Dispatch(file, inputFormat, outFmt) ==
    IF inputFormat = pdf /\ Includes(PdfTargets, outFmt)
    THEN Finish(convertPdfToImage(file, outFmt), ImageMime(outFmt),
                OutputName(file.name, outFmt))
    ELSE IF Includes(ImageToPdfInputs, inputFormat) /\ outFmt = pdf
    THEN Finish(convertImageToPdf(file), ApplicationPdf,
                OutputName(file.name, pdf))
    ELSE IF Includes(ImageToImageInputs, inputFormat)
            /\ Includes(ImageTargets, outFmt)
    THEN Finish(convertImageToImage(file, outFmt), ImageMime(outFmt),
                OutputName(file.name, outFmt))
    ELSE IF inputFormat = docx /\ outFmt = pdf
    THEN Finish(convertDocxToPdf(file), ApplicationPdf,
                OutputName(file.name, pdf))
    ELSE IF inputFormat = docx /\ outFmt = txt
    THEN Finish(convertDocxToTxt(file), TextPlain,
                OutputName(file.name, txt))
    ELSE IF inputFormat = txt /\ outFmt = pdf
    THEN Finish(convertTxtToPdf(file), ApplicationPdf,
                OutputName(file.name, pdf))
    ELSE JsonResponse(400, [NoError EXCEPT !.kind = "unsupported",
                                           !.from = ToUpperCase(inputFormat),
                                           !.to = ToUpperCase(outFmt)])

\* formData.get(k) is null when the field is absent
HasField(formData, k) == k \in DOMAIN formData

\* POST: the whole handler.  Line 12 reads file.name before the null check of
\* line 14, so an absent file throws a TypeError that the catch block turns
\* into a 500.
POST(formData) ==
    IF ~HasField(formData, "file")
    THEN JsonResponse(500, [NoError EXCEPT !.kind = "failed",
                                           !.detail = "TypeError"])
    ELSE IF ~HasField(formData, "outputFormat") \/ formData.outputFormat = <<>>
    THEN JsonResponse(400, [NoError EXCEPT !.kind = "missing"])
    ELSE Dispatch(formData.file, ServerInputFormat(formData.file.name),
                  formData.outputFormat)

----------------------------------------------------------------------------
(* Text reflow: convertTxtToPdf, route.ts lines 199-241.                   *)
(* Lengths are in tenths of a point.  The source computes in doubles       *)
(* (12 * 1.2); every comparison of the loop is at least 6.8 points away    *)
(* from equality, so exact arithmetic takes the same branches.             *)

fontSize   == 120
lineHeight == (fontSize * 12) \div 10
margin     == 500
pageWidth  == 5950
pageHeight == 8420

\* a page test that forgets the line height
NeedsNewPageAtMargin(y) == y < margin

\* line 221: if (yPosition < margin + lineHeight)
NeedsNewPage(y) == y < margin + lineHeight

\* line 227: drawText(line || " ", ...)
DrawnText(line) == IF line = <<>> THEN <<" ">> ELSE line

----------------------------------------------------------------------------
(* Image embed: convertImageToPdf, route.ts lines 116-166.                 *)
(* Sizes are JavaScript numbers (IEEE 754 binary64).  A positive number is *)
(* [m, e]: m = <<m1, m2, m3>> holds the 53 bits of the significand, m1 the *)
(* first 17 and m2, m3 the next 18 each, first bit 1; the value is         *)
(* (m1 * 2^36 + m2 * 2^18 + m3) * 2^(e - 53).  Division and multiplication *)
(* round to nearest, ties to even, as the language does.  The integers     *)
(* that enter (pixel counts, 595, 842) are below 2^12.                     *)

RECURSIVE Pow2(_)
Pow2(k) == IF k = 0 THEN 1 ELSE 2 * Pow2(k - 1)

\* the number of binary digits of a natural number
RECURSIVE BitLen(_)
BitLen(n) == IF n = 0 THEN 0 ELSE 1 + BitLen(n \div 2)

Limb    == Pow2(18)
TopLimb == Pow2(17)

\* the number with significand m, rounded up by one unit in the last place
\* when up holds
Rounded(m, e, up) ==
    IF ~up THEN [m |-> m, e |-> e]
    ELSE IF m[3] + 1 < Limb THEN [m |-> <<m[1], m[2], m[3] + 1>>, e |-> e]
    ELSE IF m[2] + 1 < Limb THEN [m |-> <<m[1], m[2] + 1, 0>>, e |-> e]
    ELSE IF m[1] + 1 < TopLimb THEN [m |-> <<m[1] + 1, 0, 0>>, e |-> e]
    ELSE [m |-> <<TopLimb \div 2, 0, 0>>, e |-> e + 1]

\* an integer literal or an integer metadata value as a number
NumOf(k) ==
    LET len == BitLen(k) IN [m |-> <<k * Pow2(17 - len), 0, 0>>, e |-> len]

\* the exponent e with 2^(e-1) <= a/b < 2^e
RECURSIVE Exponent(_, _)
Exponent(a, b) ==
    IF a >= b THEN 1 + Exponent(a, 2 * b)
    ELSE IF 2 * a < b THEN Exponent(2 * a, b) - 1
    ELSE 0

\* a / b for positive integers a and b: long division, 17 + 18 + 18 bits
NumDiv(a, b) ==
    LET e  == Exponent(a, b)
        n  == IF e >= 0 THEN a ELSE a * Pow2(0 - e)
        d  == IF e >= 0 THEN b * Pow2(e) ELSE b
        t1 == n * TopLimb
        t2 == (t1 % d) * Limb
        t3 == (t2 % d) * Limb
        r  == t3 % d
    IN  Rounded(<<t1 \div d, t2 \div d, t3 \div d>>, e,
                \/ 2 * r > d
                \/ 2 * r = d /\ (t3 \div d) % 2 = 1)

\* k * x for a positive integer k and a number x (width *= scale): the exact
\* product, then its first 53 bits rounded by the bits dropped
NumMul(k, x) ==
    LET p3   == k * x.m[3]
        p2   == k * x.m[2] + p3 \div Limb
        top  == k * x.m[1] + p2 \div Limb
        low  == p3 % Limb
        mid  == p2 % Limb
        s    == BitLen(top) - 17
        cut  == Pow2(s)
        keep == Limb \div cut
        dropped == low % cut
        m3   == low \div cut + (mid % cut) * keep
    IN  Rounded(<<top \div cut, mid \div cut + (top % cut) * keep, m3>>,
                x.e + s,
                \/ 2 * dropped > cut
                \/ 2 * dropped = cut /\ m3 % 2 = 1)

\* x <= y
NumLeq(x, y) ==
    \/ x.e < y.e
    \/ /\ x.e = y.e
       /\ \/ x.m[1] < y.m[1]
          \/ x.m[1] = y.m[1] /\ x.m[2] < y.m[2]
          \/ x.m[1] = y.m[1] /\ x.m[2] = y.m[2] /\ x.m[3] <= y.m[3]

\* Math.min
MathMin(x, y) == IF NumLeq(x, y) THEN x ELSE y

maxWidth  == 595
maxHeight == 842

\* metadata.width || maxWidth : undefined and 0 are both falsy
OrDefault(md, k, dflt) == IF k \in DOMAIN md /\ md[k] # 0 THEN md[k] ELSE dflt

\* line 133: if (width > maxWidth || height > maxHeight)
TooLarge(w, h) == w > maxWidth \/ h > maxHeight

\* lines 126-137: the width and height the image is drawn with
ScaledSize(md) ==
    LET w == OrDefault(md, "width", maxWidth)
        h == OrDefault(md, "height", maxHeight)
    IN  IF TooLarge(w, h)
        THEN LET scale == MathMin(NumDiv(maxWidth, w), NumDiv(maxHeight, h))
             IN  [width |-> NumMul(w, scale), height |-> NumMul(h, scale)]
        ELSE [width |-> NumOf(w), height |-> NumOf(h)]

\* a layout whose page is always the full 595 x 842 box
ImageLayoutFullPage(md) ==
    LET size == ScaledSize(md)
        fmt  == IF "format" \in DOMAIN md THEN md.format ELSE "unknown"
    IN  [pages |-> <<[width |-> NumOf(maxWidth),
                      height |-> NumOf(maxHeight)]>>,
         transcoded |-> ~(fmt \in {"jpeg", "jpg", "png"}),
         x |-> 0, y |-> 0,
         width |-> size.width, height |-> size.height]

\* lines 139-163: one page of the drawn size, the image embedded (transcoded
\* to png unless it is jpeg or png) and drawn at the origin
ImageLayout(md) ==
    LET size == ScaledSize(md)
        fmt  == IF "format" \in DOMAIN md THEN md.format ELSE "unknown"
    IN  [pages |-> <<[width |-> size.width, height |-> size.height]>>,
         transcoded |-> ~(fmt \in {"jpeg", "jpg", "png"}),
         x |-> 0, y |-> 0,
         width |-> size.width, height |-> size.height]

----------------------------------------------------------------------------
(* Client: src/components/file-converter.tsx                               *)

supportedFormats ==
    [document     |-> <<pdf, docx, doc, txt, rtf>>,
     presentation |-> <<pptx, ppt, odp>>,
     image        |-> <<jpg, jpeg, png, gif, bmp, webp, svg>>,
     other        |-> <<csv, xlsx, xls>>]

formatCategories ==
    << <<pdf, "document">>, <<docx, "document">>, <<doc, "document">>,
       <<txt, "document">>, <<rtf, "document">>,
       <<pptx, "presentation">>, <<ppt, "presentation">>,
       <<odp, "presentation">>,
       <<jpg, "image">>, <<jpeg, "image">>, <<png, "image">>,
       <<gif, "image">>, <<bmp, "image">>, <<webp, "image">>,
       <<svg, "image">>,
       <<csv, "other">>, <<xlsx, "other">>, <<xls, "other">> >>

\* the keys every object inherits from Object.prototype that a lower-cased
\* extension can spell
constructor == <<"c","o","n","s","t","r","u","c","t","o","r">>
proto       == <<"_","_","p","r","o","t","o","_","_">>

\* formatCategories[inputFormat]: the category of an own key, the inherited
\* value (a function, an object: truthy and no category) of an inherited
\* key, "undefined" when the key is absent
CategoryOf(fmt) ==
    IF \E i \in 1..Len(formatCategories) : formatCategories[i][1] = fmt
    THEN formatCategories[CHOOSE i \in 1..Len(formatCategories) :
                              formatCategories[i][1] = fmt][2]
    ELSE IF fmt = constructor THEN "function Object"
    ELSE IF fmt = proto THEN "Object.prototype"
    ELSE "undefined"

\* filename.split(".").pop()?.toLowerCase() || ""
getFileExtension(filename) ==
    LET e == ToLowerCase(Pop(Split(filename, ".")))
    IN  IF e = <<>> THEN <<>> ELSE e

\* The branch for image inputs, lines 98-103
ImageOutputs(inputFormat) ==
    FilterNot(supportedFormats.image, inputFormat) \o <<pdf>>

\* Result of getAvailableOutputFormats: the list it returns, or a TypeError
\* thrown while rendering
Offers(list) == [threw |-> FALSE, value |-> list, message |-> ""]
TypeErrorThrown ==
    [threw |-> TRUE, value |-> <<>>,
     message |-> "Cannot read properties of undefined (reading 'filter')"]

\* lines 88-124; supportedFormats[inputCategory] is undefined for a value
\* that is no category, and .filter on it throws
getAvailableOutputFormats(fs) ==
    IF Len(fs) = 0 THEN Offers(<<>>)
    ELSE LET inputFormat   == getFileExtension(fs[1])
             inputCategory == CategoryOf(inputFormat)
         IN  IF inputCategory = "undefined" THEN Offers(<<>>)
             ELSE IF inputCategory = "image"
             THEN Offers(ImageOutputs(inputFormat))
             ELSE IF inputFormat = pdf
             THEN Offers(supportedFormats.image
                           \o FilterNot(supportedFormats.document, pdf))
             ELSE IF inputCategory = "document"
             THEN Offers(FilterNot(supportedFormats.document, inputFormat)
                           \o <<pdf>>)
             ELSE IF inputCategory \in DOMAIN supportedFormats
             THEN Offers(FilterNot(supportedFormats[inputCategory],
                                   inputFormat))
             ELSE TypeErrorThrown

\* a local branch taken for the whole image family
IsLocalImageFamily(inputFormat) == CategoryOf(inputFormat) = "image"

\* line 239: the formats handleConvert converts in the browser
IsLocal(inputFormat) ==
    inputFormat = png \/ inputFormat = jpg \/ inputFormat = jpeg

\* lines 239-261: which asynchronous operation handleConvert awaits for a file
Awaited(name, outFmt) ==
    IF IsLocal(getFileExtension(name))
    THEN IF outFmt = pdf THEN "convertImageToPdf" ELSE "convertImageFormat"
    ELSE "fetch"

\* progress values are kept as exact fractions n/d in lowest terms
RECURSIVE Gcd(_, _)
Gcd(a, b) == IF b = 0 THEN a ELSE Gcd(b, a % b)

Frac(n, d) == LET g == Gcd(n, d) IN [n |-> n \div g, d |-> d \div g]
FracOf(k) == [n |-> k, d |-> 1]

\* line 234: setProgress((i / files.length) * 50), i counted from 0
StartProgress(i, n) == Frac(i * 50, n)
\* line 263: setProgress(((i + 1) / files.length) * 100)
DoneProgress(i, n) == Frac((i + 1) * 100, n)

\* canvas.toBlob(cb, type): an encoder the browser lacks falls back to png
CanvasBlobType(outFmt, hasWebp) ==
    LET asked == ImageMime(outFmt)
    IN  IF asked = ImageMime(jpeg) \/ asked = ImageMime(png) THEN asked
        ELSE IF asked = ImageMime(webp) /\ hasWebp THEN asked
        ELSE ImageMime(png)

\* the standard reason phrase of a status, which an HTTP/1.1 server sends
StatusText(st) ==
    IF st = 200 THEN "OK"
    ELSE IF st = 400 THEN "Bad Request" ELSE "Internal Server Error"

\* response.statusText, line 257: route.ts sets none, so it is the reason
\* phrase of the connection: the standard one over HTTP/1.1, none over HTTP/2
StatusTexts(st) == {StatusText(st), ""}

ReasonPhrases == UNION {StatusTexts(st) : st \in {200, 400, 500}}

----------------------------------------------------------------------------
(* Bounds and input sets                                                   *)

MaxRequests  == 2
MaxLines     == 104
Spread       == 2
MaxScale     == 8
MaxFiles     == 2
MaxConverted == 2

Name(stem, ext) == stem \o Dot \o ext

AllFormats ==
    {pdf, docx, doc, txt, rtf, pptx, ppt, odp, jpg, jpeg, png, gif, bmp,
     webp, svg, csv, xlsx, xls}

Stems == {<<"a">>, <<"m", "y", ".", "r">>, <<>>}

\* file names: every known extension, upper-case and unknown extensions,
\* names without a dot ("no", "png") and a name ending in a dot
FileNames ==
    {Name(st, e) : st \in Stems,
                   e \in AllFormats \cup {ToUpperCase(png), <<"x", "y", "z">>}}
      \cup {<<"n", "o">>, <<"a", ".">>, png}

\* the contents of a file: readable by the decoders or not (ok), text the
\* standard font can draw or not (drawable), or no bytes at all (empty),
\* which no decoder reads and which is an empty text
Contents ==
    {[ok |-> b, drawable |-> d, empty |-> FALSE] : b \in BOOLEAN, d \in BOOLEAN}
      \cup {[ok |-> FALSE, drawable |-> TRUE, empty |-> TRUE]}

Buffers ==
    {[name |-> nm, ok |-> c.ok, drawable |-> c.drawable, empty |-> c.empty] :
       nm \in FileNames, c \in Contents}

OutputFields == AllFormats \cup {ToUpperCase(pdf), <<>>}

FormDatas ==
    {[file |-> f, outputFormat |-> o] : f \in Buffers, o \in OutputFields}
      \cup {[file |-> f] : f \in Buffers}
      \cup {[outputFormat |-> o] : o \in OutputFields}

\* a text of n lines; the lines cycle through empty, "a" and "bc"
LineAt(i) ==
    IF i % 3 = 0 THEN <<>> ELSE IF i % 3 = 1 THEN <<"a">> ELSE <<"b", "c">>

RECURSIVE TextRange(_, _)
TextRange(lo, hi) ==
    IF lo = hi THEN LineAt(lo)
    ELSE LET mid == (lo + hi) \div 2
         IN  TextRange(lo, mid) \o <<Newline>> \o TextRange(mid + 1, hi)

Text(n, shift) == TextRange(shift + 1, shift + n)

TextInputs == {Text(n, sh) : n \in 1..MaxLines, sh \in 0..2}

\* sizes around the box, multiples of 250, and a 1:2 image whose scaled
\* size is not a binary fraction
Widths  == {maxWidth + d : d \in (0 - Spread)..Spread}
             \cup {k * 250 : k \in 1..MaxScale} \cup {584}
Heights == {maxHeight + d : d \in (0 - Spread)..Spread}
             \cup {k * 250 : k \in 1..MaxScale} \cup {1168}

Metadatas ==
    {[width |-> w, height |-> h, format |-> f] :
        w \in Widths, h \in Heights, f \in {"jpeg", "png", "gif"}}
      \cup {[height |-> h, format |-> "png"] : h \in Heights}
      \cup {[width |-> w, format |-> "png"] : w \in Widths}
      \cup {[format |-> "svg"]}

\* the formats the user picks in the Select, among those offered
OutputChoices == {pdf, bmp}

\* the names used to exercise the Select alone; the last two spell a
\* property that formatCategories inherits
SelectNames ==
    {Name(<<"a">>, e) : e \in AllFormats \cup {ToUpperCase(png), <<"x", "y", "z">>}}
      \cup {<<"n", "o">>, <<"a", ".">>, png}
      \cup {Name(<<"a">>, constructor), Name(<<"a">>, proto)}

ClientNames ==
    {Name(<<"m", ".", "r">>, ToUpperCase(png)), Name(<<"a">>, gif)}

\* the names used to exercise the branch of handleConvert: every image
\* format, one of them in upper case, and formats of other families
BranchNames ==
    {Name(<<"a">>, e) :
        e \in {jpg, jpeg, ToUpperCase(png), gif, bmp, webp, svg, txt, pdf,
               docx}}

\* the contents of an uploaded file: bytes that every pipeline can read and
\* draw, and bytes that none can
ClientContents ==
    {[ok |-> b, drawable |-> b, empty |-> FALSE] : b \in BOOLEAN}

----------------------------------------------------------------------------
(* Initial state: nothing requested, nothing uploaded                      *)

NoResponse == JsonResponse(0, NoError)

Init ==
    /\ request = <<>> /\ response = NoResponse /\ served = 0
    /\ txtLines = <<>> /\ lineIdx = 0 /\ pageCount = 0 /\ yPosition = 0
    /\ drawn = <<>> /\ txtPc = "idle"
    /\ metadata = <<>> /\ embedded = <<>>
    /\ files = <<>> /\ outputFormat = <<>> /\ isConverting = FALSE
    /\ progress = FracOf(0) /\ convertedFiles = <<>> /\ error = ""
    /\ offered = <<>> /\ crashed = FALSE
    /\ jobFiles = <<>> /\ jobOutput = <<>> /\ jobIdx = 0
    /\ jobResponse = NoResponse /\ inflight = "none" /\ handled = FALSE

----------------------------------------------------------------------------
(* Server actions                                                          *)

\* One request handled by POST
Post(formData) ==
    /\ served = 0
    /\ request' = formData
    /\ response' = POST(formData)
    /\ served' = served + 1
    /\ UNCHANGED <<reflowVars, embedVars, clientVars>>

\* The same request sent again
Repeat ==
    /\ served > 0
    /\ served < MaxRequests
    /\ request' = request
    /\ response' = POST(request)
    /\ served' = served + 1
    /\ UNCHANGED <<reflowVars, embedVars, clientVars>>

ServerNext ==
    \/ \E formData \in FormDatas : Post(formData)
    \/ Repeat

SpecServer == Init /\ [][ServerNext]_vars

----------------------------------------------------------------------------
(* Text reflow actions: convertTxtToPdf step by step                       *)

\* lines 201-217: first page, cursor at the top margin, text split in lines
ReflowStart(text) ==
    /\ txtPc = "idle"
    /\ txtLines' = Split(text, Newline)
    /\ lineIdx' = 0
    /\ pageCount' = 1
    /\ yPosition' = pageHeight - margin
    /\ drawn' = <<>>
    /\ txtPc' = "loop"
    /\ UNCHANGED <<serverVars, embedVars, clientVars>>

\* lines 219-234: one iteration of the loop
ReflowLine ==
    /\ txtPc = "loop"
    /\ lineIdx < Len(txtLines)
    /\ LET line    == txtLines[lineIdx + 1]
           newPage == NeedsNewPage(yPosition)
           page    == IF newPage THEN pageCount + 1 ELSE pageCount
           y       == IF newPage THEN pageHeight - margin ELSE yPosition
       IN  /\ pageCount' = page
           /\ drawn' = Append(drawn, [page |-> page, x |-> margin, y |-> y,
                                      size |-> fontSize,
                                      text |-> DrawnText(line)])
           /\ yPosition' = y - lineHeight
    /\ lineIdx' = lineIdx + 1
    /\ UNCHANGED <<txtLines, txtPc, serverVars, embedVars, clientVars>>

\* line 236: pdfDoc.save()
ReflowSave ==
    /\ txtPc = "loop"
    /\ lineIdx = Len(txtLines)
    /\ txtPc' = "saved"
    /\ UNCHANGED <<txtLines, lineIdx, pageCount, yPosition, drawn,
                   serverVars, embedVars, clientVars>>

ReflowNext ==
    \/ \E text \in TextInputs : ReflowStart(text)
    \/ ReflowLine
    \/ ReflowSave

SpecReflow == Init /\ [][ReflowNext]_vars

----------------------------------------------------------------------------
(* Image embed action: convertImageToPdf                                   *)

EmbedImage(md) ==
    /\ embedded = <<>>
    /\ metadata' = md
    /\ embedded' = <<ImageLayout(md)>>
    /\ UNCHANGED <<serverVars, reflowVars, clientVars>>

EmbedNext == \E md \in Metadatas : EmbedImage(md)

SpecEmbed == Init /\ [][EmbedNext]_vars

----------------------------------------------------------------------------
(* Client actions: the FileConverter component.  An action is one turn of  *)
(* the event loop: an event handler, or the part of handleConvert between  *)
(* two awaits.  jobFiles, jobOutput and jobIdx are the files, outputFormat  *)
(* and i of the running handleConvert call; they are cleared when it ends.  *)

\* The component re-renders after every state change; the Select lists
\* getAvailableOutputFormats() of the new state (lines 375-379).  When that
\* call throws, the render throws and the component is gone.
Render ==
    LET r == getAvailableOutputFormats(files')
    IN  offered' = r.value /\ crashed' = r.threw

jobVars == <<jobFiles, jobOutput, jobIdx, jobResponse, inflight, handled>>

\* onDrop, lines 58-65
onDrop(acceptedFiles) ==
    /\ ~crashed
    /\ Len(files) + Len(acceptedFiles) <= MaxFiles
    /\ files' = files \o acceptedFiles
    /\ UNCHANGED <<outputFormat, isConverting, progress, convertedFiles,
                   error, jobVars, serverVars, reflowVars, embedVars>>
    /\ Render

\* removeFile, lines 126-130 (index counted from 1 here)
removeFile(index) ==
    /\ ~crashed
    /\ index \in 1..Len(files)
    /\ files' = SubSeq(files, 1, index - 1)
                  \o SubSeq(files, index + 1, Len(files))
    /\ outputFormat' = <<>>
    /\ convertedFiles' = <<>>
    /\ UNCHANGED <<isConverting, progress, error, jobVars,
                   serverVars, reflowVars, embedVars>>
    /\ Render

\* Select onValueChange={setOutputFormat}, lines 366-381
setOutputFormat(format) ==
    /\ ~crashed
    /\ Len(files) > 0
    /\ format \in Range(offered)
    /\ outputFormat' = format
    /\ UNCHANGED <<files, isConverting, progress, convertedFiles, error,
                   jobVars, serverVars, reflowVars, embedVars>>
    /\ Render

\* handleConvert up to its first await, lines 222-261.  The button is shown
\* when files and outputFormat are set and is disabled while converting
\* (lines 391-392).  The closure keeps the files and outputFormat it saw.
\* A call is explored while the list of results and the server's count of
\* requests have room for every file of it.
handleConvert ==
    /\ ~crashed
    /\ Len(files) > 0
    /\ outputFormat # <<>>
    /\ ~isConverting
    /\ Len(convertedFiles) + Len(files) <= MaxConverted
    /\ served + Len(files) <= MaxRequests
    /\ isConverting' = TRUE
    /\ error' = ""
    /\ jobFiles' = files
    /\ jobOutput' = outputFormat
    /\ jobIdx' = 0
    /\ progress' = StartProgress(0, Len(files))
    /\ inflight' = Awaited(files[1], outputFormat)
    /\ UNCHANGED <<files, outputFormat, convertedFiles, jobResponse, handled,
                   serverVars, reflowVars, embedVars>>
    /\ Render

\* The continuations of handleConvert run whether or not the component is
\* still there: after a render has thrown, the state setters change nothing
\* and nothing is rendered, while the loop itself goes on.

\* lines 263-270 after a fulfilled await, then the next iteration up to its
\* await (lines 230-261), or the end of the loop and the finally block
Advance(blob) ==
    LET file == jobFiles[jobIdx + 1]
        n    == Len(jobFiles)
        more == jobIdx + 1 < n
    IN  /\ UNCHANGED <<files, outputFormat, error, reflowVars, embedVars>>
        /\ IF crashed
           THEN UNCHANGED <<convertedFiles, progress, isConverting,
                            offered, crashed>>
           ELSE /\ convertedFiles' =
                      Append(convertedFiles,
                             [filename |-> OutputName(file, jobOutput),
                              url |-> blob])
                /\ progress' = IF more THEN StartProgress(jobIdx + 1, n)
                               ELSE DoneProgress(jobIdx, n)
                /\ isConverting' = IF more THEN isConverting ELSE FALSE
                /\ Render
        /\ IF more
           THEN /\ inflight' = Awaited(jobFiles[jobIdx + 2], jobOutput)
                /\ jobIdx' = jobIdx + 1
                /\ UNCHANGED <<jobFiles, jobOutput>>
           ELSE /\ inflight' = "none"
                /\ jobFiles' = <<>> /\ jobOutput' = <<>> /\ jobIdx' = 0
        /\ jobResponse' = NoResponse
        /\ handled' = FALSE

\* a catch block that also drops the results of the batch
AbortRollback(message) ==
    /\ UNCHANGED <<files, outputFormat, progress, reflowVars, embedVars>>
    /\ IF crashed
       THEN UNCHANGED <<error, isConverting, convertedFiles, offered, crashed>>
       ELSE /\ error' = message
            /\ isConverting' = FALSE
            /\ convertedFiles' =
                  SubSeq(convertedFiles, 1, Len(convertedFiles) - jobIdx)
            /\ Render
    /\ inflight' = "none"
    /\ jobFiles' = <<>> /\ jobOutput' = <<>> /\ jobIdx' = 0
    /\ jobResponse' = NoResponse
    /\ handled' = FALSE

\* lines 271-276 after a rejected await or a throw: catch and finally
Abort(message) ==
    /\ UNCHANGED <<files, outputFormat, progress, convertedFiles,
                   reflowVars, embedVars>>
    /\ IF crashed
       THEN UNCHANGED <<error, isConverting, offered, crashed>>
       ELSE /\ error' = message
            /\ isConverting' = FALSE
            /\ Render
    /\ inflight' = "none"
    /\ jobFiles' = <<>> /\ jobOutput' = <<>> /\ jobIdx' = 0
    /\ jobResponse' = NoResponse
    /\ handled' = FALSE

Blob(how, mime, name) == [via |-> how, type |-> mime, source |-> name]

\* what can go wrong inside img.onload: no 2d context (lines 143 and 192),
\* or an exception caught and passed to reject (lines 172 and 212)
OnloadFailures == {"Could not get canvas context", "exception in img.onload"}

\* convertImageToPdf (client), lines 132-180: img.onload resolves
LocalPdfResolve ==
    /\ inflight = "convertImageToPdf"
    /\ Advance(Blob("convertImageToPdf", ApplicationPdf, jobFiles[jobIdx + 1]))
    /\ UNCHANGED serverVars

\* convertImageFormat, lines 187-215: img.onload draws the image and calls
\* canvas.toBlob; nothing is resolved and no state is set in this turn
ImageOnload ==
    /\ inflight = "convertImageFormat"
    /\ inflight' = "toBlob"
    /\ UNCHANGED <<files, outputFormat, isConverting, progress,
                   convertedFiles, error, offered, crashed, jobFiles,
                   jobOutput, jobIdx, jobResponse, handled, serverVars,
                   reflowVars, embedVars>>

\* the toBlob callback with a blob, lines 202-204
LocalImageResolve(hasWebp) ==
    /\ inflight = "toBlob"
    /\ Advance(Blob("convertImageFormat", CanvasBlobType(jobOutput, hasWebp),
                    jobFiles[jobIdx + 1]))
    /\ UNCHANGED serverVars

\* the toBlob callback with null, lines 205-207
ToBlobNull ==
    /\ inflight = "toBlob"
    /\ Abort("Failed to convert image")
    /\ UNCHANGED serverVars

\* img.onload rejects, in either function
OnloadReject(message) ==
    /\ inflight \in {"convertImageToPdf", "convertImageFormat"}
    /\ Abort(message)
    /\ UNCHANGED serverVars

\* img.onerror, lines 177 and 217
LocalReject ==
    /\ inflight \in {"convertImageToPdf", "convertImageFormat"}
    /\ Abort("Failed to load image")
    /\ UNCHANGED serverVars

\* The request of line 251 reaches the server and POST handles it, while the
\* component still awaits fetch.  After a lost connection the browser may
\* send the same request once more, and POST handles it again.
ServerHandle(contents) ==
    /\ inflight = "fetch"
    /\ served < MaxRequests
    /\ LET file     == jobFiles[jobIdx + 1]
           formData == IF handled THEN request
                       ELSE [file |-> [name |-> file, ok |-> contents.ok,
                                       drawable |-> contents.drawable,
                                       empty |-> contents.empty],
                             outputFormat |-> jobOutput]
       IN  /\ request' = formData
           /\ response' = POST(formData)
    /\ served' = served + 1
    /\ handled' = TRUE
    /\ UNCHANGED <<files, outputFormat, isConverting, progress,
                   convertedFiles, error, offered, crashed, jobFiles,
                   jobOutput, jobIdx, jobResponse, inflight,
                   reflowVars, embedVars>>

\* await fetch("/api/convert") fulfilled, lines 251-258: the status line and
\* the headers of POST's answer are here, statusText being the reason phrase
\* the connection carried; the body is awaited next, unless the status is
\* not ok
FetchResponse(statusText) ==
    /\ inflight = "fetch"
    /\ handled
    /\ statusText \in StatusTexts(response.status)
    /\ IF response.status = 200
       THEN /\ inflight' = "blob"
            /\ jobResponse' = response
            /\ handled' = FALSE
            /\ UNCHANGED <<files, outputFormat, isConverting, progress,
                           convertedFiles, error, offered, crashed, jobFiles,
                           jobOutput, jobIdx, reflowVars, embedVars>>
       ELSE Abort("Server conversion failed: " \o statusText)
    /\ UNCHANGED serverVars

\* The text of a rejection comes from the runtime: line 273 shows the
\* error.message of whatever the awaited promise was rejected with.  These
\* are the texts of a TypeError of fetch (Chrome, Node) and of a body that
\* cannot be read to its end (Chrome, Node).
FetchFailures == {"Failed to fetch", "fetch failed"}
BodyFailures  == {"Failed to fetch", "terminated"}

\* fetch rejects: the connection is lost, before or after POST has handled
\* the request
FetchReject(message) ==
    /\ inflight = "fetch"
    /\ Abort(message)
    /\ UNCHANGED serverVars

\* await response.blob() fulfilled, line 260
BlobResolve ==
    /\ inflight = "blob"
    /\ Advance(Blob("fetch", jobResponse.mimeType, jobFiles[jobIdx + 1]))
    /\ UNCHANGED serverVars

\* await response.blob() rejected: the connection is lost before the body
\* has arrived
BlobReject(message) ==
    /\ inflight = "blob"
    /\ Abort(message)
    /\ UNCHANGED serverVars

ClientNext ==
    \/ \E name \in ClientNames : onDrop(<<name>>)
    \/ \E index \in 1..MaxFiles + 1 : removeFile(index)
    \/ \E format \in OutputChoices : setOutputFormat(format)
    \/ handleConvert
    \/ LocalPdfResolve
    \/ ImageOnload
    \/ \E hasWebp \in BOOLEAN : LocalImageResolve(hasWebp)
    \/ ToBlobNull
    \/ \E message \in OnloadFailures : OnloadReject(message)
    \/ LocalReject
    \/ \E contents \in ClientContents : ServerHandle(contents)
    \/ \E statusText \in ReasonPhrases : FetchResponse(statusText)
    \/ \E message \in FetchFailures : FetchReject(message)
    \/ BlobResolve
    \/ \E message \in BodyFailures : BlobReject(message)

SpecClient == Init /\ [][ClientNext]_vars

\* Which branch handleConvert takes for a file: uploads of every image format
\* and of other formats, converted by batches that succeed or are answered
BranchNext ==
    \/ \E name \in BranchNames : onDrop(<<name>>)
    \/ \E format \in OutputChoices : setOutputFormat(format)
    \/ handleConvert
    \/ LocalPdfResolve
    \/ ImageOnload
    \/ \E hasWebp \in BOOLEAN : LocalImageResolve(hasWebp)
    \/ \E contents \in ClientContents : ServerHandle(contents)
    \/ \E statusText \in ReasonPhrases : FetchResponse(statusText)
    \/ BlobResolve

SpecBranch == Init /\ [][BranchNext]_vars

\* Uploading and removing files only: what the Select offers
SelectNext ==
    \/ \E name \in SelectNames : onDrop(<<name>>)
    \/ \E index \in 1..MaxFiles + 1 : removeFile(index)

SpecSelect == Init /\ [][SelectNext]_vars

\* The server called directly, or the client used: the two places that name
\* an output file
ClientUntouched ==
    /\ files = <<>> /\ outputFormat = <<>> /\ ~isConverting
    /\ convertedFiles = <<>> /\ error = "" /\ inflight = "none"
    /\ progress = FracOf(0)

NamingNext ==
    \/ ClientUntouched /\ ServerNext
    \/ (served = 0 \/ ~ClientUntouched) /\ ClientNext

SpecNaming == Init /\ [][NamingNext]_vars

\* The two classifiers: the client's Select and the server's dispatcher
ClassifyNext ==
    \/ ClientUntouched /\ ServerNext
    \/ served = 0 /\ SelectNext

SpecClassify == Init /\ [][ClassifyNext]_vars

----------------------------------------------------------------------------
(* The documented behaviour, stated independently of the code above        *)

ImageFamily        == {jpg, jpeg, png, gif, bmp, webp, svg}
DocumentFamily     == {pdf, docx, doc, txt, rtf}
PresentationFamily == {pptx, ppt, odp}
OtherFamily        == {csv, xlsx, xls}

\* The steps of the pipeline the dispatch table documents for a pair; the
\* empty sequence when the pair is not in the table
DocumentedSteps(inFmt, outFmt) ==
    IF inFmt \in ImageFamily /\ outFmt \in {jpg, jpeg}
    THEN <<"reencode-jpeg">>
    ELSE IF inFmt \in ImageFamily /\ outFmt = png THEN <<"reencode-png">>
    ELSE IF inFmt \in ImageFamily /\ outFmt = webp THEN <<"reencode-webp">>
    ELSE IF inFmt \in ImageFamily /\ outFmt = pdf THEN <<"embed-image">>
    ELSE IF inFmt = pdf /\ outFmt \in {jpg, jpeg}
    THEN <<"blank-page", "encode-jpeg">>
    ELSE IF inFmt = pdf /\ outFmt = png THEN <<"blank-page", "encode-png">>
    ELSE IF inFmt = docx /\ outFmt = pdf THEN <<"extract-text", "reflow-text">>
    ELSE IF inFmt = docx /\ outFmt = txt THEN <<"extract-text">>
    ELSE IF inFmt = txt /\ outFmt = pdf THEN <<"reflow-text">>
    ELSE <<>>

InTable(inFmt, outFmt) == DocumentedSteps(inFmt, outFmt) # <<>>

DocumentedMime(outFmt) ==
    IF outFmt \in {jpg, jpeg} THEN <<"i","m","a","g","e","/","j","p","e","g">>
    ELSE IF outFmt = png THEN <<"i","m","a","g","e","/","p","n","g">>
    ELSE IF outFmt = webp THEN <<"i","m","a","g","e","/","w","e","b","p">>
    ELSE IF outFmt = pdf THEN ApplicationPdf
    ELSE TextPlain

\* the request carries a file and a non-empty outputFormat
WellFormed(formData) ==
    /\ "file" \in DOMAIN formData
    /\ "outputFormat" \in DOMAIN formData
    /\ formData.outputFormat # <<>>

\* the lower-cased final extension of the request's file name
RequestInput(formData) == ToLowerCase(Pop(Split(formData.file.name, ".")))

\* the part of a name before its first "."
BeforeFirstDot(name) ==
    LET dots == {i \in 1..Len(name) : name[i] = "."}
    IN  IF dots = {} THEN name
        ELSE SubSeq(name, 1, (CHOOSE i \in dots : \A j \in dots : i <= j) - 1)

----------------------------------------------------------------------------
(* Claims                                                                  *)

\* C1 (as stated): for every pair of the dispatch table, image* read as the
\* whole image family, a request whose file its pipeline can read and draw
\* (decodable bytes, text of the standard font) is answered with the
\* documented pipeline's steps and the MIME type of the output format.
\* Violated by the code: bmp -> pdf, svg -> pdf and svg -> image are rejected.
C1_TableDispatched ==
    (served > 0 /\ WellFormed(request)
       /\ request.file.ok /\ request.file.drawable
       /\ InTable(RequestInput(request), request.outputFormat))
    => /\ response.status = 200
       /\ response.body = "bytes"
       /\ response.steps =
              DocumentedSteps(RequestInput(request), request.outputFormat)
       /\ response.mimeType = DocumentedMime(request.outputFormat)

\* C2: a pair that is not in the dispatch table runs no pipeline and is
\* answered with the unsupported-conversion error naming both formats; the
\* same request sent again is answered identically.
C2_Unsupported(formData, resp) ==
    (WellFormed(formData)
       /\ ~InTable(RequestInput(formData), formData.outputFormat))
    => /\ resp.body = "json"
       /\ resp.steps = <<>>
       /\ resp.error.kind = "unsupported"
       /\ ToLowerCase(resp.error.from) = RequestInput(formData)
       /\ ToLowerCase(resp.error.to) = ToLowerCase(formData.outputFormat)

C2_UnsupportedRejected ==
    [][/\ served' > 0 => C2_Unsupported(request', response')
       /\ (served > 0 /\ request' = request) => response' = response]_vars

C2_Witness ==
    /\ served = 2
    /\ request = [file |-> [name |-> Name(<<"a">>, txt), ok |-> TRUE,
                           drawable |-> TRUE, empty |-> FALSE],
                  outputFormat |-> docx]
    /\ response.error.kind = "unsupported"
    /\ response.error.from = ToUpperCase(txt)
    /\ response.error.to = ToUpperCase(docx)

\* C3 (as stated): a request without file or without outputFormat, or with a
\* pair outside the table, is answered 400; 500 is answered only when a
\* selected pipeline throws; an error answer never carries converted bytes.
\* Violated by the code: a request without a file field is answered 500.
C3_StatusCodes ==
    served > 0 =>
      /\ (~WellFormed(request)
            \/ ~InTable(RequestInput(request), request.outputFormat))
         => response.status = 400
      /\ response.status = 500
         => (/\ WellFormed(request)
             /\ InTable(RequestInput(request), request.outputFormat)
             /\ ~(request.file.ok /\ request.file.drawable))
      /\ response.status # 200
         => (response.body = "json" /\ response.error.kind # "none")

\* C4: the output file name, of the server's answer and of the client's
\* download entry alike, is the part of the original name before its first
\* ".", then ".", then the requested output format.
C4_OutputFileName ==
    [][/\ (served' # served /\ response'.status = 200)
          => response'.filename =
               BeforeFirstDot(request'.file.name) \o <<".">>
                 \o request'.outputFormat
       /\ Len(convertedFiles') = Len(convertedFiles) + 1
          => convertedFiles'[Len(convertedFiles')].filename =
               BeforeFirstDot(jobFiles[jobIdx + 1]) \o <<".">> \o jobOutput
      ]_vars

C4_Witness ==
    /\ Len(convertedFiles) > 0
    /\ convertedFiles[1].url.source = Name(<<"m", ".", "r">>, ToUpperCase(png))
    /\ convertedFiles[1].filename = <<"m", ".", "p", "d", "f">>

\* C5: text reflow draws every input line exactly once, in input order, on
\* the most recently allocated page, at most 51 lines per page, never lower
\* than one line height above the bottom margin, with the cursor never below
\* the bottom margin; L lines give max(1, ceil(L/51)) pages.
C5_Reflow ==
    txtPc # "idle" =>
      /\ Len(drawn) = lineIdx
      /\ \A i \in 1..Len(drawn) :
            /\ drawn[i].text = (IF txtLines[i] = <<>> THEN <<" ">> ELSE txtLines[i])
            /\ i > 1 => drawn[i - 1].page <= drawn[i].page
            /\ drawn[i].y >= 500 + 144
      /\ Len(drawn) > 0 => drawn[Len(drawn)].page = pageCount
      /\ \A p \in 1..pageCount :
            Cardinality({i \in 1..Len(drawn) : drawn[i].page = p}) <= 51
      /\ yPosition >= 500
      /\ pageCount >= 1
      /\ lineIdx > 0 =>
            pageCount = (lineIdx + 50) \div 51
      /\ txtPc = "saved" =>
            /\ lineIdx = Len(txtLines)
            /\ Len(txtLines) = 51 => pageCount = 1
            /\ Len(txtLines) = 52 => pageCount = 2

C5_Witness ==
    /\ txtPc = "saved"
    /\ Len(txtLines) = 52
    /\ pageCount = 2
    /\ drawn[52].page = 2
    /\ drawn[51].page = 1

\* C6 (as stated): image embed draws an image of natural size w x h, 595 and
\* 842 standing in for a missing width or height, unscaled when it fits in
\* 595 x 842 and otherwise scaled by min(595/w, 842/h), so that the drawn
\* size never exceeds 595 x 842.
\* Violated by the code: the scale and the two products are rounded, and a
\* 584 x 1168 image is drawn 421.00000000000006 x 842.0000000000001.
C6_EmbedScaling ==
    embedded # <<>> =>
      LET w == IF "width" \in DOMAIN metadata THEN metadata.width ELSE 595
          h == IF "height" \in DOMAIN metadata THEN metadata.height ELSE 842
          dw == embedded[1].width
          dh == embedded[1].height
      IN  /\ NumLeq(dw, NumOf(595))
          /\ NumLeq(dh, NumOf(842))
          /\ (w <= 595 /\ h <= 842) => (dw = NumOf(w) /\ dh = NumOf(h))
          /\ (w > 595 \/ h > 842)
             => (NumLeq(dw, NumOf(w)) /\ NumLeq(dh, NumOf(h)))

\* C7 (as stated): getAvailableOutputFormats returns a list for every first
\* file, and the formats offered are, as a set: for an
\* image, the other image formats and pdf; for pdf, all image formats and the
\* document formats but pdf; for another document, the other document
\* formats and pdf; for another family, the family without the input format;
\* nothing for an unrecognized format or without files.
\* Violated by the code: for a file named a.constructor the lookup of the
\* category finds an inherited property, and the call throws a TypeError.
ExpectedOutputs(fs) ==
    IF fs = <<>> THEN {}
    ELSE LET f == getFileExtension(fs[1])
         IN  IF f \in ImageFamily THEN (ImageFamily \ {f}) \cup {pdf}
             ELSE IF f = pdf THEN ImageFamily \cup (DocumentFamily \ {pdf})
             ELSE IF f \in DocumentFamily
             THEN (DocumentFamily \ {f}) \cup {pdf}
             ELSE IF f \in PresentationFamily THEN PresentationFamily \ {f}
             ELSE IF f \in OtherFamily THEN OtherFamily \ {f}
             ELSE {}

C7_AvailableOutputs ==
    /\ ~crashed
    /\ ~getAvailableOutputFormats(files).threw
    /\ Range(offered) = ExpectedOutputs(files)

\* C8 (as stated): every pair the client converts in the browser is accepted
\* by the server's dispatcher, with the same kind of pipeline.
\* Violated by the code: the client re-encodes png -> bmp, the server rejects it.
C8_DispatchersAgree ==
    inflight \in {"convertImageToPdf", "convertImageFormat", "toBlob"} =>
      LET resp == POST([file |-> [name |-> jobFiles[jobIdx + 1], ok |-> TRUE,
                                  drawable |-> TRUE, empty |-> FALSE],
                        outputFormat |-> jobOutput])
      IN  /\ resp.status = 200
          /\ inflight = "convertImageToPdf" => resp.steps = <<"embed-image">>
          /\ inflight \in {"convertImageFormat", "toBlob"}
             => resp.steps \in {<<"reencode-jpeg">>, <<"reencode-png">>,
                                <<"reencode-webp">>}

\* C9 (as stated): a file of the image family is converted in the browser,
\* a file of any other format is sent to the server.
\* Violated by the code: gif, bmp, webp and svg files are sent to the server.
C9_ImageFamilyLocal ==
    inflight # "none" =>
      (inflight \in {"fetch", "blob"}
         <=> getFileExtension(jobFiles[jobIdx + 1]) \notin ImageFamily)

\* C9 (amended): a png, jpg or jpeg file is converted in the browser with no
\* request sent; a file of any other format, the image formats gif, bmp, webp
\* and svg included, is sent to the server.
C9_PngJpgLocal ==
    inflight # "none" =>
      /\ inflight \in {"fetch", "blob"}
            <=> getFileExtension(jobFiles[jobIdx + 1]) \notin {png, jpg, jpeg}
      /\ inflight \in {"convertImageToPdf", "convertImageFormat", "toBlob"}
            => (jobResponse = NoResponse /\ ~handled)

C9_Witness ==
    /\ Len(jobFiles) = 2
    /\ jobIdx = 1
    /\ jobFiles[1] = Name(<<"a">>, jpeg)
    /\ jobFiles[2] = Name(<<"a">>, webp)
    /\ inflight = "fetch"
    /\ served = 0
    /\ Len(convertedFiles) = 1
    /\ convertedFiles[1].url.via = "convertImageToPdf"

\* the asynchronous operation a pending continuation belongs to
Operation(awaited) ==
    IF awaited = "toBlob" THEN "convertImageFormat"
    ELSE IF awaited = "blob" THEN "fetch" ELSE awaited

\* C10 (as stated): files are converted one at a time in list order, and
\* once k of the n files have completed the progress indicator is 100*k/n.
\* Violated by the code: starting the next file resets it to 50*k/n.
C10_SequentialProgress ==
    /\ isConverting <=> inflight # "none"
    /\ isConverting =>
         /\ jobIdx < Len(jobFiles)
         /\ Operation(inflight) = Awaited(jobFiles[jobIdx + 1], jobOutput)
         /\ jobIdx >= 1 => progress = Frac(100 * jobIdx, Len(jobFiles))

\* the step after which handleConvert no longer works on the file it was
\* working on: it has gone on to the next file, or the batch has ended
LeavesFile ==
    /\ isConverting /\ inflight # "none"
    /\ (jobIdx' # jobIdx \/ inflight' = "none")

\* C11: a step that leaves the k-th file of a batch either has converted it
\* (its entry is added after the earlier ones, no error is shown, and the
\* batch goes on to file k+1 or ends after the last file), or has failed: then
\* the downloadable list is left exactly as it was, with the results of the
\* files before and no entry for the failing file, no later file of the batch
\* is worked on, an error message is shown and the converting flag is false.
\* An entry is only ever added by a step that has converted a file.
C11_FailureKeepsResults ==
    [][/\ LeavesFile
          => \/ /\ Len(convertedFiles') = Len(convertedFiles) + 1
                /\ SubSeq(convertedFiles', 1, Len(convertedFiles)) =
                     convertedFiles
                /\ convertedFiles'[Len(convertedFiles')].url.source =
                     jobFiles[jobIdx + 1]
                /\ error' = ""
                /\ IF jobIdx + 1 < Len(jobFiles)
                   THEN /\ isConverting' /\ inflight' # "none"
                        /\ jobFiles' = jobFiles /\ jobIdx' = jobIdx + 1
                   ELSE ~isConverting' /\ inflight' = "none"
             \/ /\ convertedFiles' = convertedFiles
                /\ error' # ""
                /\ ~isConverting'
                /\ inflight' = "none"
                /\ jobFiles' = <<>>
                /\ files' = files
       /\ Len(convertedFiles') > Len(convertedFiles) => LeavesFile
       /\ ~isConverting' => inflight' = "none"
      ]_vars

\* the second of two files has failed: the first one's result is still listed
C11_Witness ==
    /\ ~isConverting
    /\ error = "Server conversion failed: Bad Request"
    /\ files = <<Name(<<"m", ".", "r">>, ToUpperCase(png)), Name(<<"a">>, gif)>>
    /\ outputFormat = bmp
    /\ Len(convertedFiles) = 1
    /\ convertedFiles[1].url.source = files[1]
    /\ convertedFiles[1].filename = <<"m", ".", "b", "m", "p">>
    /\ inflight = "none"

\* C12 (as stated): image embed produces exactly one page, sized 595 x 842
\* for every image, with the image drawn at the page origin.
\* Violated by the code: the page has the size the image is drawn with.
C12_OnePageFullBox ==
    embedded # <<>> =>
      /\ Len(embedded[1].pages) = 1
      /\ embedded[1].pages[1] = [width  |-> NumOf(595),
                                 height |-> NumOf(842)]
      /\ embedded[1].x = 0 /\ embedded[1].y = 0

\* C12 (amended): image embed produces exactly one page, whose size is the
\* size the image is drawn with (the natural size, scaled down when it is
\* larger than 595 x 842), so that the page of an image narrower than 595 is
\* narrower than 595; the image is drawn at the page origin.
C12_OnePageImageSized ==
    embedded # <<>> =>
      LET page == embedded[1].pages[1]
      IN  /\ Len(embedded[1].pages) = 1
          /\ page.width = embedded[1].width
          /\ page.height = embedded[1].height
          /\ ("width" \in DOMAIN metadata /\ metadata.width < 595)
             => ~NumLeq(NumOf(595), page.width)
          /\ embedded[1].x = 0 /\ embedded[1].y = 0

C12_Witness ==
    /\ embedded # <<>>
    /\ "width" \in DOMAIN metadata /\ "height" \in DOMAIN metadata
    /\ metadata.width = 250 /\ metadata.height = 500
    /\ embedded[1].pages = <<[width  |-> NumOf(250),
                              height |-> NumOf(500)]>>
    /\ embedded[1].x = 0 /\ embedded[1].y = 0

\* a name without extension: no "." at all, or nothing after the last "."
HasNoExtension(name) ==
    \/ \A i \in 1..Len(name) : name[i] # "."
    \/ name[Len(name)] = "."

\* C13 (as stated): classification ignores the case of the name, and a name
\* without extension fails the classifier lookup: the client offers no
\* output format for it and the server's dispatcher matches no table entry.
\* Violated by the code: a name without "." is taken whole as its format, so
\* a file named "png" is classified as a png image on both sides.
C13_NoExtensionFails ==
    /\ (files # <<>> /\ ~crashed) =>
         /\ getFileExtension(files[1]) = getFileExtension(ToLowerCase(files[1]))
         /\ offered = getAvailableOutputFormats(<<ToLowerCase(files[1])>>).value
         /\ HasNoExtension(files[1]) => offered = <<>>
    /\ (served > 0 /\ WellFormed(request)) =>
         LET lower == POST([request EXCEPT
                              !.file.name = ToLowerCase(request.file.name)])
         IN  /\ response.status = lower.status
             /\ response.steps = lower.steps
             /\ response.mimeType = lower.mimeType
             /\ HasNoExtension(request.file.name)
                => (response.status = 400 /\ response.steps = <<>>
                    /\ response.error.kind = "unsupported")

\* C14 (as stated): every output format offered for a file is a conversion
\* that is performed: while handleConvert works on a file whose own format is
\* offered the chosen target, the step never ends with the dispatcher's
\* answer for an unsupported conversion (400, shown with the reason phrase
\* of the connection), and the job stops only on a decode or transport
\* failure or after its last file.
\* Violated by the code: a gif file is offered bmp, which the server rejects.
C14_OfferedIsPerformed ==
    [][(/\ isConverting
        /\ jobOutput \in Range(getAvailableOutputFormats(
                                  <<jobFiles[jobIdx + 1]>>).value))
       => /\ error' \notin {"Server conversion failed: " \o statusText :
                              statusText \in StatusTexts(400)}
          /\ (~isConverting' /\ error' = "")
             => Len(convertedFiles') = Len(convertedFiles) + 1
      ]_vars

====
